---- MODULE Spec2Model ----
(***************************************************************************)
(* Authentication / session core of the MSP inventory system:              *)
(* AuthService (users, sessions, login, authorization) and the rate        *)
(* limiter of SecurityService.                                             *)
(*                                                                         *)
(* Time is counted in units of UnitMs milliseconds (one rate-limit         *)
(* window); every duration of the code is a whole number of units.         *)
(* Optional fields (lockedUntil?, lastLogin?, assignedClients?, a null     *)
(* session) are sequences of length 0 (absent) or 1 (present).             *)
(* A bcrypt hash is the record [bcrypt |-> plaintext]; the fields email    *)
(* and createdAt of a user take part in no decision and are left out.      *)
(* An async method runs to its next await on bcrypt in one step; the calls *)
(* suspended there are the list pending, each with the locals it holds,    *)
(* and they resume in any order. The suspended calls are those of          *)
(* createUser, changePassword and initializeDefaultUser; a login() call    *)
(* is taken as one step where its calls are made one after the other, and  *)
(* as two (up to its await on verifyPassword, and after it) in SpecRace    *)
(* and SpecOverlap, where login() calls overlap. passed counts, for each   *)
(* username, the login() calls that got past the rate limiter in the       *)
(* present window.                                                         *)
(***************************************************************************)
EXTENDS Integers, Sequences, FiniteSets, TLC

VARIABLES users, nextId, sessions, attempts, currentSession, nextSid, now, last, run,
          pending, passed

vars == <<users, nextId, sessions, attempts, currentSession, nextSid, now, last, run,
          pending, passed>>

(* ------------------------------ bounds -------------------------------- *)
MaxTime == 4
MaxSessions == 2
MaxPending == 2
MaxUsers == 4

(* ------------------------- program constants -------------------------- *)
UnitMs == 15 * 60 * 1000
WindowMs == (15 * 60 * 1000) \div UnitMs
LockMs == (30 * 60 * 1000) \div UnitMs
SessionMs == (8 * 60 * 60 * 1000) \div UnitMs
InactivityMs == (2 * 60 * 60 * 1000) \div UnitMs
MaxAttempts == 5
LockThreshold == 5

Roles == {"admin", "technician", "readonly"}

(* ------------------------------ options ------------------------------- *)
Absent == <<>>
Some(x) == <<x>>
IsSome(o) == Len(o) > 0
Get(o) == o[1]

(* Math.ceil(a / b) for a >= 0, b > 0 *)
Ceil(a, b) == (a + b - 1) \div b

Max(a, b) == IF a >= b THEN a ELSE b

(* --------------------------- SecurityService -------------------------- *)
hashPassword(password) == [bcrypt |-> password]

verifyPassword(password, hash) == hash = [bcrypt |-> password]

(* variant: the window already counts as elapsed at its reset time *)
WindowElapsed_AtReset(att, identifier, t) ==
  identifier \notin DOMAIN att \/ t >= att[identifier].resetTime

(* the condition under which isAllowed starts a fresh window *)
WindowElapsed(att, identifier, t) ==
  identifier \notin DOMAIN att \/ t > att[identifier].resetTime

MapSet(att, identifier, record) ==
  [i \in DOMAIN att \cup {identifier} |-> IF i = identifier THEN record ELSE att[i]]

(* isAllowed: [allowed, attempts] = the returned boolean and the map after *)
isAllowed(att, identifier, maxAttempts, windowMs, t) ==
  IF WindowElapsed(att, identifier, t)
  THEN [allowed |-> TRUE,
        attempts |-> MapSet(att, identifier, [count |-> 1, resetTime |-> t + windowMs])]
  ELSE IF att[identifier].count >= maxAttempts
  THEN [allowed |-> FALSE, attempts |-> att]
  ELSE [allowed |-> TRUE,
        attempts |-> MapSet(att, identifier,
                            [count |-> att[identifier].count + 1,
                             resetTime |-> att[identifier].resetTime])]

reset(att, identifier) == [i \in DOMAIN att \ {identifier} |-> att[i]]

getRemainingTime(att, identifier, t) ==
  IF identifier \notin DOMAIN att THEN 0
  ELSE Max(0, att[identifier].resetTime - t)


(* what the regular expressions and length tests of the validators see of  *)
(* a string: its length, whether it has a lower-case letter, an upper-case *)
(* letter, a digit, one of the special characters, whether it is made of   *)
(* [a-zA-Z0-9_-] only, and its lower-case form                             *)
CharsOf(len, lower, upper, digit, special, word, lowered) ==
  [len |-> len, lower |-> lower, upper |-> upper, digit |-> digit,
   special |-> special, word |-> word, lowered |-> lowered]

Chars(s) ==
  CASE s = "" -> CharsOf(0, FALSE, FALSE, FALSE, FALSE, TRUE, "")
    [] s = "admin123" -> CharsOf(8, TRUE, FALSE, TRUE, FALSE, TRUE, "admin123")
    [] s = "Tech#2024" -> CharsOf(9, TRUE, TRUE, TRUE, TRUE, FALSE, "tech#2024")
    [] s = "View#2024" -> CharsOf(9, TRUE, TRUE, TRUE, TRUE, FALSE, "view#2024")
    [] s = "NewPass1!" -> CharsOf(9, TRUE, TRUE, TRUE, TRUE, FALSE, "newpass1!")
    [] s = "wrong" -> CharsOf(5, TRUE, FALSE, FALSE, FALSE, TRUE, "wrong")
    [] s = "admin" -> CharsOf(5, TRUE, FALSE, FALSE, FALSE, TRUE, "admin")
    [] s = "tech1" -> CharsOf(5, TRUE, FALSE, TRUE, FALSE, TRUE, "tech1")
    [] s = "viewer" -> CharsOf(6, TRUE, FALSE, FALSE, FALSE, TRUE, "viewer")
    [] s = "clerk" -> CharsOf(5, TRUE, FALSE, FALSE, FALSE, TRUE, "clerk")
    [] s = "a b" -> CharsOf(3, TRUE, FALSE, FALSE, FALSE, FALSE, "a b")

MinUsernameLen == 3
MaxUsernameLen == 50
MinPasswordLen == 8
MaxPasswordLen == 128

validateUsername(username) ==
  LET c == Chars(username)
  IN c.word /\ c.len >= MinUsernameLen /\ c.len <= MaxUsernameLen

commonPasswords ==
  {"password", "password123", "12345678", "qwerty", "abc123",
   "admin", "admin123", "root", "user", "guest"}

(* the error list gets one entry per failed test, in the order of the tests *)
PushIf(errors, failed, text) == IF failed THEN Append(errors, text) ELSE errors

validatePassword(password) ==
  LET c == Chars(password)
      e1 == PushIf(<<>>, c.len < MinPasswordLen, "Password must be at least 8 characters long")
      e2 == PushIf(e1, c.len > MaxPasswordLen, "Password must be less than 128 characters")
      e3 == PushIf(e2, ~c.lower, "Password must contain at least one lowercase letter")
      e4 == PushIf(e3, ~c.upper, "Password must contain at least one uppercase letter")
      e5 == PushIf(e4, ~c.digit, "Password must contain at least one number")
      e6 == PushIf(e5, ~c.special, "Password must contain at least one special character")
      e7 == PushIf(e6, c.lowered \in commonPasswords, "Password is too common and not secure")
  IN IF password = ""
     THEN [valid |-> FALSE, errors |-> <<"Password is required">>]
     ELSE [valid |-> Len(e7) = 0, errors |-> e7]

(* ----------------------------- AuthService ---------------------------- *)
ClientId(username) == <<"login", username>>

(* Array.prototype.findIndex / find: the first of the matching indices, 0 if none *)
FindIndex(matching) ==
  IF matching = {} THEN 0
  ELSE CHOOSE i \in matching : \A j \in matching : i <= j

(* the index of the stored user with the id, 0 if none *)
IndexOfId(us, id) == FindIndex({i \in 1..Len(us) : us[i].id = id})

mapStoredUserToUser(storedUser) ==
  [id |-> storedUser.id,
   username |-> storedUser.username,
   role |-> storedUser.role,
   assignedClients |-> storedUser.assignedClients,
   lastLogin |-> storedUser.lastLogin]

(* variant: only the absolute expiry is tested *)
isSessionValid_ExpiryOnly(session, t) == t < session.expiresAt

isSessionValid(session, t) ==
  t < session.expiresAt /\ (t - session.lastActivity) < InactivityMs

(* variant: the view carries the role the session captured *)
getCurrentUser_CapturedRole(us, cur, t) ==
  IF ~IsSome(cur) \/ ~isSessionValid(Get(cur), t) THEN Absent
  ELSE LET i == IndexOfId(us, Get(cur).userId)
       IN IF i = 0 THEN Absent
          ELSE Some([mapStoredUserToUser(us[i]) EXCEPT !.role = Get(cur).role])

(* getCurrentUser: Absent (null) or Some(public view) *)
getCurrentUser(us, cur, t) ==
  IF ~IsSome(cur) \/ ~isSessionValid(Get(cur), t) THEN Absent
  ELSE LET i == IndexOfId(us, Get(cur).userId)
       IN IF i = 0 THEN Absent ELSE Some(mapStoredUserToUser(us[i]))

(* variant: technician and readonly ranked the other way round *)
roleHierarchy_Swapped(role) ==
  CASE role = "admin" -> 3
    [] role = "technician" -> 1
    [] role = "readonly" -> 2

roleHierarchy(role) ==
  CASE role = "admin" -> 3
    [] role = "technician" -> 2
    [] role = "readonly" -> 1

hasPermission(us, cur, t, requiredRole) ==
  LET user == getCurrentUser(us, cur, t)
  IN IF ~IsSome(user) THEN FALSE
     ELSE roleHierarchy(Get(user).role) >= roleHierarchy(requiredRole)

Includes(list, x) == \E i \in 1..Len(list) : list[i] = x

(* variant: any assigned list gives access, whatever it holds *)
canAccessClient_AnyList(us, cur, t, clientId) ==
  LET user == getCurrentUser(us, cur, t)
  IN IF ~IsSome(user) THEN FALSE
     ELSE IF Get(user).role = "admin" THEN TRUE
     ELSE IsSome(Get(user).assignedClients)

canAccessClient(us, cur, t, clientId) ==
  LET user == getCurrentUser(us, cur, t)
  IN IF ~IsSome(user) THEN FALSE
     ELSE IF Get(user).role = "admin" THEN TRUE
     ELSE IsSome(Get(user).assignedClients)
          /\ Includes(Get(Get(user).assignedClients), clientId)

(* createSession: the new session record (its store write is in login) *)
createSession(user, sessionId, t) ==
  [userId |-> user.id,
   username |-> user.username,
   role |-> user.role,
   sessionId |-> sessionId,
   createdAt |-> t,
   expiresAt |-> t + SessionMs,
   lastActivity |-> t]

destroySession(ss, sessionId) == SelectSeq(ss, LAMBDA s : s.sessionId # sessionId)

(* updateStoredUser: replace the record with the same id, if there is one *)
updateStoredUser(us, user) ==
  LET i == IndexOfId(us, user.id)
  IN IF i = 0 THEN us ELSE [us EXCEPT ![i] = user]

(* { ...old, ...userData }: userData is a function on the fields it supplies *)
Merge(old, userData) ==
  [f \in DOMAIN old \cup DOMAIN userData |->
     IF f \in DOMAIN userData THEN userData[f] ELSE old[f]]

(* variant: any current user may update any record *)
updateUserAllowed_AnyUser(us, cur, t, targetId) == IsSome(getCurrentUser(us, cur, t))

updateUserAllowed(us, cur, t, targetId) ==
  LET currentUser == getCurrentUser(us, cur, t)
  IN IsSome(currentUser)
     /\ (Get(currentUser).role = "admin" \/ Get(currentUser).id = targetId)

(* updateUser: [success, error, users] *)
updateUser(us, cur, t, userData) ==
  IF ~updateUserAllowed(us, cur, t, userData.id)
  THEN [success |-> FALSE, error |-> "Insufficient permissions to update user", users |-> us]
  ELSE LET i == IndexOfId(us, userData.id)
       IN IF i = 0
          THEN [success |-> FALSE, error |-> "User not found", users |-> us]
          ELSE [success |-> TRUE, error |-> "",
                users |-> [us EXCEPT ![i] = Merge(us[i], userData)]]

(* -------------------------------- login ------------------------------- *)
Result(success, kind, minutes, user, token) ==
  [success |-> success, kind |-> kind, minutes |-> minutes, user |-> user, token |-> token]

(* result kinds and the error text of each *)
ErrorText(kind) ==
  CASE kind = "ValidationError" -> "Username and password are required"
    [] kind = "RateLimited" -> "Too many failed attempts. Try again in N minutes."
    [] kind = "InvalidCredentials" -> "Invalid username or password"
    [] kind = "AccountLocked" -> "Account is locked. Try again in N minutes."
    [] kind = "Success" -> ""

Minutes(units) == Ceil(units * UnitMs, 60 * 1000)

Outcome(result, us, ss, att, cur) ==
  [result |-> result, users |-> us, sessions |-> ss, attempts |-> att, currentSession |-> cur]

(* users.find(u => u.username === username && u.isActive): index or 0 *)
FindActive(us, username) ==
  FindIndex({i \in 1..Len(us) : us[i].username = username /\ us[i].isActive})

(* variant: the comparison with lockedUntil turned round *)
IsLocked_Flipped(user, t) == IsSome(user.lockedUntil) /\ t > Get(user.lockedUntil)

IsLocked(user, t) == IsSome(user.lockedUntil) /\ t < Get(user.lockedUntil)

(* variant: the lock lasts one rate-limit window instead of 30 minutes *)
FailedUser_ShortLock(user, t) ==
  LET n == user.failedLoginAttempts + 1
  IN [user EXCEPT !.failedLoginAttempts = n,
                  !.lockedUntil = IF n >= LockThreshold THEN Some(t + WindowMs) ELSE @]

(* the record written back after a failed password verification *)
FailedUser(user, t) ==
  LET n == user.failedLoginAttempts + 1
  IN [user EXCEPT !.failedLoginAttempts = n,
                  !.lockedUntil = IF n >= LockThreshold THEN Some(t + LockMs) ELSE @]

(* the record written back after a successful password verification *)
SucceededUser(user, t) ==
  [user EXCEPT !.failedLoginAttempts = 0, !.lockedUntil = Absent, !.lastLogin = Some(t)]

(* the store write of the success branch: this.updateUser(user) *)
PersistSuccess(us, cur, t, user) == updateUser(us, cur, t, user).users

ValidationResult == Result(FALSE, "ValidationError", 0, Absent, Absent)

RateLimitedResult(att, clientId, t) ==
  Result(FALSE, "RateLimited", Minutes(getRemainingTime(att, clientId, t)), Absent, Absent)

(* variant: an unknown username is answered with an error of its own *)
NotFoundResult_Distinct == Result(FALSE, "UserNotFound", 0, Absent, Absent)

NotFoundResult == Result(FALSE, "InvalidCredentials", 0, Absent, Absent)

LockedResult(user, t) ==
  Result(FALSE, "AccountLocked", Minutes(Get(user.lockedUntil) - t), Absent, Absent)

WrongPasswordResult == Result(FALSE, "InvalidCredentials", 0, Absent, Absent)

(* variant: the gate lets a sixth attempt into the window *)
Gate_SixAttempts(att, clientId, t) ==
  isAllowed(att, clientId, MaxAttempts + 1, WindowMs, t)

(* the gate of login: this.rateLimiter.isAllowed(clientId, 5, 15 * 60 * 1000) *)
Gate(att, clientId, t) == isAllowed(att, clientId, MaxAttempts, WindowMs, t)

(* login past the rate limiter: lookup, lock check, verification, success *)
Authenticate(us, ss, att, cur, sid, t, username, password) ==
  LET i == FindActive(us, username)
  IN IF i = 0
     THEN Outcome(NotFoundResult, us, ss, att, cur)
     ELSE IF IsLocked(us[i], t)
     THEN Outcome(LockedResult(us[i], t), us, ss, att, cur)
     ELSE IF ~verifyPassword(password, us[i].passwordHash)
     THEN Outcome(WrongPasswordResult,
                  updateStoredUser(us, FailedUser(us[i], t)), ss, att, cur)
     ELSE
     LET user == SucceededUser(us[i], t)
         session == createSession(user, sid, t)
     IN Outcome(Result(TRUE, "Success", 0,
                       Some(mapStoredUserToUser(user)), Some(session.sessionId)),
                PersistSuccess(us, cur, t, user),
                Append(ss, session),
                reset(att, ClientId(username)),
                Some(session))

(* variant: the user lookup comes before the rate limiter *)
login_LookupFirst(us, ss, att, cur, sid, t, username, password) ==
  IF username = "" \/ password = ""
  THEN Outcome(ValidationResult, us, ss, att, cur)
  ELSE IF FindActive(us, username) = 0
  THEN Outcome(NotFoundResult, us, ss, att, cur)
  ELSE LET gate == Gate(att, ClientId(username), t)
       IN IF ~gate.allowed
          THEN Outcome(RateLimitedResult(gate.attempts, ClientId(username), t),
                       us, ss, gate.attempts, cur)
          ELSE Authenticate(us, ss, gate.attempts, cur, sid, t, username, password)

login(us, ss, att, cur, sid, t, username, password) ==
  IF username = "" \/ password = ""
  THEN Outcome(ValidationResult, us, ss, att, cur)
  ELSE LET gate == Gate(att, ClientId(username), t)
       IN IF ~gate.allowed
          THEN Outcome(RateLimitedResult(gate.attempts, ClientId(username), t),
                       us, ss, gate.attempts, cur)
          ELSE Authenticate(us, ss, gate.attempts, cur, sid, t, username, password)

(* variant: the gate only looks; the attempt is not counted before the     *)
(* call suspends                                                           *)
loginBegin_CountDeferred(us, att, t, username, password) ==
  IF username = "" \/ password = ""
  THEN [suspended |-> FALSE, passed |-> FALSE, attempts |-> att,
        result |-> ValidationResult]
  ELSE LET i == FindActive(us, username)
       IN IF ~Gate(att, ClientId(username), t).allowed
          THEN [suspended |-> FALSE, passed |-> FALSE, attempts |-> att,
                result |-> RateLimitedResult(att, ClientId(username), t)]
          ELSE IF i = 0
          THEN [suspended |-> FALSE, passed |-> TRUE, attempts |-> att,
                result |-> NotFoundResult]
          ELSE IF IsLocked(us[i], t)
          THEN [suspended |-> FALSE, passed |-> TRUE, attempts |-> att,
                result |-> LockedResult(us[i], t)]
          ELSE [suspended |-> TRUE, passed |-> TRUE, attempts |-> att,
                task |-> [op |-> "login", username |-> username,
                          password |-> password, user |-> us[i]]]

(* login up to its await on verifyPassword: either it has returned a       *)
(* result, or it is suspended holding the user record it has read; passed  *)
(* tells whether the call got past the rate limiter                        *)
loginBegin(us, att, t, username, password) ==
  IF username = "" \/ password = ""
  THEN [suspended |-> FALSE, passed |-> FALSE, attempts |-> att,
        result |-> ValidationResult]
  ELSE LET gate == Gate(att, ClientId(username), t)
           i == FindActive(us, username)
       IN IF ~gate.allowed
          THEN [suspended |-> FALSE, passed |-> FALSE, attempts |-> gate.attempts,
                result |-> RateLimitedResult(gate.attempts, ClientId(username), t)]
          ELSE IF i = 0
          THEN [suspended |-> FALSE, passed |-> TRUE, attempts |-> gate.attempts,
                result |-> NotFoundResult]
          ELSE IF IsLocked(us[i], t)
          THEN [suspended |-> FALSE, passed |-> TRUE, attempts |-> gate.attempts,
                result |-> LockedResult(us[i], t)]
          ELSE [suspended |-> TRUE, passed |-> TRUE, attempts |-> gate.attempts,
                task |-> [op |-> "login", username |-> username,
                          password |-> password, user |-> us[i]]]

(* login after the await: the verdict on the hash it read before, and the  *)
(* record it read before written back with the failure or the success      *)
loginResume(us, ss, att, cur, sid, t, task) ==
  IF ~verifyPassword(task.password, task.user.passwordHash)
  THEN Outcome(WrongPasswordResult,
               updateStoredUser(us, FailedUser(task.user, t)), ss, att, cur)
  ELSE LET user == SucceededUser(task.user, t)
           session == createSession(user, sid, t)
       IN Outcome(Result(TRUE, "Success", 0,
                         Some(mapStoredUserToUser(user)), Some(session.sessionId)),
                  PersistSuccess(us, cur, t, user),
                  Append(ss, session),
                  reset(att, ClientId(task.username)),
                  Some(session))

(* --------------------------- user management -------------------------- *)
Failure(kind) == Result(FALSE, kind, 0, Absent, Absent)

Success == Result(TRUE, "Success", 0, Absent, Absent)

(* the error text of each failure of createUser, updateUser, changePassword *)
UserErrorText(kind) ==
  CASE kind = "CreateDenied" -> "Insufficient permissions to create users"
    [] kind = "InvalidUsername" -> "Invalid username format"
    [] kind = "WeakPassword" -> "passwordValidation.errors.join(', ')"
    [] kind = "UsernameExists" -> "Username already exists"
    [] kind = "UpdateDenied" -> "Insufficient permissions to update user"
    [] kind = "ChangeDenied" -> "Insufficient permissions"
    [] kind = "UserNotFound" -> "User not found"
    [] kind = "OldPasswordMismatch" -> "Current password is incorrect"

(* userData of createUser *)
UserData(username, password, role, assignedClients) ==
  [username |-> username, password |-> password, role |-> role,
   assignedClients |-> assignedClients]

(* the record createUser stores *)
NewUser(id, userData) ==
  [id |-> id, username |-> userData.username,
   passwordHash |-> hashPassword(userData.password),
   role |-> userData.role, assignedClients |-> userData.assignedClients,
   lastLogin |-> Absent, isActive |-> TRUE, failedLoginAttempts |-> 0,
   lockedUntil |-> Absent]

(* variant: the permission test accepts any current user *)
createUserAllowed_AnyUser(us, cur, t) == IsSome(getCurrentUser(us, cur, t))

createUserAllowed(us, cur, t) ==
  LET currentUser == getCurrentUser(us, cur, t)
  IN IsSome(currentUser) /\ Get(currentUser).role = "admin"

(* variant: only the first stored user is looked at *)
UsernameTaken_FirstOnly(us, username) == Len(us) > 0 /\ us[1].username = username

UsernameTaken(us, username) == \E i \in 1..Len(us) : us[i].username = username

(* createUser up to its await on hashPassword: either it has returned a    *)
(* result, or it is suspended holding the users and the nextId it has read *)
createUserBegin(us, cur, t, nid, userData) ==
  IF ~createUserAllowed(us, cur, t)
  THEN [suspended |-> FALSE, result |-> Failure("CreateDenied")]
  ELSE IF ~validateUsername(userData.username)
  THEN [suspended |-> FALSE, result |-> Failure("InvalidUsername")]
  ELSE IF ~validatePassword(userData.password).valid
  THEN [suspended |-> FALSE, result |-> Failure("WeakPassword")]
  ELSE IF UsernameTaken(us, userData.username)
  THEN [suspended |-> FALSE, result |-> Failure("UsernameExists")]
  ELSE [suspended |-> TRUE,
        task |-> [op |-> "createUser", users |-> us, nextId |-> nid,
                  userData |-> userData]]

(* createUser after the await: it writes the list and the id it holds *)
createUserResume(task) ==
  LET newUser == NewUser(task.nextId, task.userData)
  IN [users |-> Append(task.users, newUser),
      nextId |-> task.nextId + 1,
      result |-> Result(TRUE, "Success", 0, Some(mapStoredUserToUser(newUser)), Absent)]

(* variant: the inactive users are listed too *)
getUsers_All(us, cur, t) ==
  IF ~createUserAllowed(us, cur, t) THEN <<>>
  ELSE [i \in 1..Len(us) |-> mapStoredUserToUser(us[i])]

getUsers(us, cur, t) ==
  LET currentUser == getCurrentUser(us, cur, t)
      active == SelectSeq(us, LAMBDA u : u.isActive)
  IN IF ~IsSome(currentUser) \/ Get(currentUser).role # "admin" THEN <<>>
     ELSE [i \in 1..Len(active) |-> mapStoredUserToUser(active[i])]

(* variant: the old password is not compared *)
OldPasswordVerified_Always(currentUser, user, oldPassword) == TRUE

(* the old password is verified when the user changes their own password *)
OldPasswordVerified(currentUser, user, oldPassword) ==
  currentUser.id # user.id \/ verifyPassword(oldPassword, user.passwordHash)

changePasswordAllowed(us, cur, t, userId) ==
  LET currentUser == getCurrentUser(us, cur, t)
  IN IsSome(currentUser)
     /\ (Get(currentUser).role = "admin" \/ Get(currentUser).id = userId)

(* changePassword up to its await on hashPassword (the await on            *)
(* verifyPassword before it reads and writes nothing in between): either   *)
(* it has returned a result, or it is suspended holding the user record it *)
(* has read                                                                *)
changePasswordBegin(us, cur, t, userId, oldPassword, newPassword) ==
  LET i == IndexOfId(us, userId)
  IN IF ~changePasswordAllowed(us, cur, t, userId)
     THEN [suspended |-> FALSE, result |-> Failure("ChangeDenied")]
     ELSE IF i = 0
     THEN [suspended |-> FALSE, result |-> Failure("UserNotFound")]
     ELSE IF ~OldPasswordVerified(Get(getCurrentUser(us, cur, t)), us[i], oldPassword)
     THEN [suspended |-> FALSE, result |-> Failure("OldPasswordMismatch")]
     ELSE IF ~validatePassword(newPassword).valid
     THEN [suspended |-> FALSE, result |-> Failure("WeakPassword")]
     ELSE [suspended |-> TRUE,
           task |-> [op |-> "changePassword", user |-> us[i],
                     newPassword |-> newPassword]]

(* changePassword after the await: the record it holds, with the new hash, *)
(* goes through updateUser, whose result is dropped                        *)
changePasswordResume(us, cur, t, task) ==
  LET user == [task.user EXCEPT !.passwordHash = hashPassword(task.newPassword)]
  IN [users |-> updateUser(us, cur, t, user).users, result |-> Success]

(* variant: the session record stays in the store *)
logout_KeepRecord(ss, cur) ==
  [sessions |-> ss, currentSession |-> Absent, result |-> Success]

logout(ss, cur) ==
  [sessions |-> IF IsSome(cur) THEN destroySession(ss, Get(cur).sessionId) ELSE ss,
   currentSession |-> Absent,
   result |-> Success]

(* variant: the default credentials are tried whatever the session *)
autoLoginAsAdmin_AlwaysLogin(us, ss, att, cur, sid, t) ==
  login(us, ss, att, cur, sid, t, "admin", "admin123")

autoLoginAsAdmin(us, ss, att, cur, sid, t) ==
  IF IsSome(getCurrentUser(us, cur, t))
  THEN Outcome(Result(TRUE, "Success", 0, getCurrentUser(us, cur, t),
                      Some(Get(cur).sessionId)),
               us, ss, att, cur)
  ELSE login(us, ss, att, cur, sid, t, "admin", "admin123")

(* the record initializeDefaultUser stores *)
defaultAdmin ==
  [id |-> 1, username |-> "admin", passwordHash |-> hashPassword("admin123"),
   role |-> "admin", assignedClients |-> Absent, lastLogin |-> Absent,
   isActive |-> TRUE, failedLoginAttempts |-> 0, lockedUntil |-> Absent]

(* initializeDefaultUser up to its await on hashPassword: with an empty    *)
(* user list it is suspended, otherwise it has returned                    *)
initializeDefaultUserBegin(us) ==
  IF Len(us) = 0 THEN <<[op |-> "initializeDefaultUser"]>> ELSE <<>>

(* variant: nextId is left as it was *)
initializeDefaultUserResume_SameNextId(us, nid) ==
  [users |-> <<defaultAdmin>>, nextId |-> nid]

(* initializeDefaultUser after the await *)
initializeDefaultUserResume(us, nid) ==
  [users |-> <<defaultAdmin>>, nextId |-> 2]

cleanupExpiredSessions(ss, t) == SelectSeq(ss, LAMBDA x : t < x.expiresAt)

(* ------------------------------- inputs ------------------------------- *)
DefaultPassword == "admin123"
TechPassword == "Tech#2024"
ViewerPassword == "View#2024"

StoredUser(id, username, password, role, assignedClients) ==
  [id |-> id, username |-> username, passwordHash |-> hashPassword(password),
   role |-> role, assignedClients |-> assignedClients, lastLogin |-> Absent,
   isActive |-> TRUE, failedLoginAttempts |-> 0, lockedUntil |-> Absent]

(* a user store left by earlier runs: the default admin and two created users *)
InitialUsers ==
  << StoredUser(1, "admin", DefaultPassword, "admin", Absent),
     StoredUser(2, "tech1", TechPassword, "technician", Some(<<"clientA">>)),
     StoredUser(3, "viewer", ViewerPassword, "readonly", Absent) >>

ClientIds == {"clientA", "clientB"}

(* the credentials the callers try: under Spec, one user with right, wrong *)
(* and empty passwords; under SpecSession, every user with the right one   *)
LoginInputs ==
  { <<"tech1", TechPassword>>, <<"tech1", "wrong">>, <<"tech1", "">> }

SessionInputs ==
  { <<"admin", DefaultPassword>>, <<"tech1", TechPassword>>, <<"viewer", ViewerPassword>> }

(* the instants SpecSession looks at: around the 2 h and the 8 h bounds *)
SessionTimes ==
  {0, InactivityMs - 1, InactivityMs, SessionMs - 1, SessionMs, SessionMs + 1}

(* ------------------------------- history ------------------------------ *)
(* the latest call: what was called with what, what it returned, and the *)
(* streak and burst of its username before it                                *)
Call(op, username, password, result, streak, burst) ==
  [op |-> op, username |-> username, password |-> password, result |-> result,
   streak |-> streak, burst |-> burst]

NoResult == Result(TRUE, "None", 0, Absent, Absent)

NoCall == Call("none", "", "", NoResult, 0, 0)

(* what the callers have seen of one username, kept while the login()     *)
(* calls are for that username:                                            *)
(*   streak - how many of the latest login() calls in a row returned       *)
(*            InvalidCredentials                                           *)
(*   at     - when the latest of them was made                             *)
(*   burst  - how many failed attempts that were not throttled             *)
(*            (InvalidCredentials or AccountLocked) were made at the       *)
(*            present instant, up to five                                  *)
NoRun == [name |-> "", streak |-> 0, at |-> 0, burst |-> 0]

Min(a, b) == IF a <= b THEN a ELSE b

NextRun(r, username, result, t) ==
  LET r0 == IF r.name = username THEN r ELSE [NoRun EXCEPT !.name = username]
  IN CASE result.kind = "InvalidCredentials" ->
            [r0 EXCEPT !.streak = @ + 1, !.at = t,
                       !.burst = Min(@ + 1, MaxAttempts)]
       [] result.kind = "AccountLocked" ->
            [r0 EXCEPT !.streak = 0, !.at = 0, !.burst = Min(@ + 1, MaxAttempts)]
       [] OTHER -> [r0 EXCEPT !.streak = 0, !.at = 0]

(* ------------------------------- actions ------------------------------ *)
Init ==
  /\ users = InitialUsers
  /\ nextId = Len(InitialUsers) + 1
  /\ sessions = <<>>
  /\ attempts = << >>
  /\ currentSession = Absent
  /\ nextSid = 1
  /\ now = 0
  /\ last = NoCall
  /\ run = NoRun
  /\ pending = <<>>
  /\ passed = << >>

Login(username, password) ==
  LET o == login(users, sessions, attempts, currentSession, nextSid, now, username, password)
  IN /\ o.result.success => nextSid <= MaxSessions
     /\ users' = o.users
     /\ sessions' = o.sessions
     /\ attempts' = o.attempts
     /\ currentSession' = o.currentSession
     /\ nextSid' = IF o.result.success THEN nextSid + 1 ELSE nextSid
     /\ last' = Call("login", username, password, o.result,
                     IF run.name = username THEN run.streak ELSE 0,
                     IF run.name = username THEN run.burst ELSE 0)
     /\ run' = NextRun(run, username, o.result, now)
     /\ UNCHANGED <<nextId, now, pending, passed>>

Logout ==
  /\ sessions' = logout(sessions, currentSession).sessions
  /\ currentSession' = logout(sessions, currentSession).currentSession
  /\ last' = Call("logout", "", "", logout(sessions, currentSession).result, 0, 0)
  /\ UNCHANGED <<users, nextId, attempts, nextSid, now, run, pending, passed>>

(* the clock advances to t *)
Advance(t) ==
  /\ now < t
  /\ now' = t
  /\ last' = Call("tick", "", "", NoResult, 0, 0)
  /\ run' = [run EXCEPT !.burst = 0]
  /\ UNCHANGED <<users, nextId, sessions, attempts, currentSession, nextSid, pending, passed>>

Tick == now < MaxTime /\ Advance(now + 1)

Next ==
  \/ \E c \in LoginInputs : Login(c[1], c[2])
  \/ Logout
  \/ Tick

Spec == Init /\ [][Next]_vars

NextSession ==
  \/ \E c \in SessionInputs : Login(c[1], c[2])
  \/ Logout
  \/ \E t \in SessionTimes : Advance(t)

SpecSession == Init /\ [][NextSession]_vars

(* the rate limiter on its own: its three methods called for two identifiers *)
LimiterNames == {"tech1", "nobody"}

IsAllowedCall(name) ==
  LET r == isAllowed(attempts, ClientId(name), MaxAttempts, WindowMs, now)
  IN /\ attempts' = r.attempts
     /\ last' = Call("isAllowed", name, "",
                     Result(r.allowed, "None", 0, Absent, Absent), 0, 0)
     /\ UNCHANGED <<users, nextId, sessions, currentSession, nextSid, now, run, pending, passed>>

ResetCall(name) ==
  /\ attempts' = reset(attempts, ClientId(name))
  /\ last' = Call("reset", name, "", NoResult, 0, 0)
  /\ UNCHANGED <<users, nextId, sessions, currentSession, nextSid, now, run, pending, passed>>

GetRemainingTimeCall(name) ==
  /\ last' = Call("getRemainingTime", name, "",
                  Result(TRUE, "None", Minutes(getRemainingTime(attempts, ClientId(name), now)),
                         Absent, Absent), 0, 0)
  /\ UNCHANGED <<users, nextId, sessions, attempts, currentSession, nextSid, now, run, pending, passed>>

NextLimiter ==
  \/ \E name \in LimiterNames : IsAllowedCall(name)
  \/ \E name \in LimiterNames : ResetCall(name)
  \/ \E name \in LimiterNames : GetRemainingTimeCall(name)
  \/ Tick

SpecLimiter == Init /\ [][NextLimiter]_vars

(* ------------------- user management and its callers ------------------ *)
(* the list without its k-th element *)
RemoveAt(list, k) == SubSeq(list, 1, k - 1) \o SubSeq(list, k + 1, Len(list))

UserLogins ==
  { <<"admin", DefaultPassword>>, <<"tech1", TechPassword>> }

CreateInputs ==
  { UserData("clerk", "NewPass1!", "technician", Some(<<"clientB">>)),
    UserData("tech1", "NewPass1!", "readonly", Absent),
    UserData("tech1", "wrong", "readonly", Absent),
    UserData("a b", "NewPass1!", "readonly", Absent) }

(* userData of updateUser: an id and the fields to overwrite *)
UpdateInputs ==
  { [id |-> 3, username |-> "admin"],
    [id |-> 3, isActive |-> FALSE],
    [id |-> 9, isActive |-> FALSE] }

(* userId, oldPassword, newPassword of changePassword *)
ChangeInputs ==
  { <<2, TechPassword, "NewPass1!">>, <<2, "wrong", "NewPass1!">>,
    <<2, TechPassword, "wrong">>, <<2, "NewPass1!", "NewPass1!">>,
    <<1, "wrong", "NewPass1!">>, <<9, "wrong", "NewPass1!">> }

CreateUserCall(userData) ==
  LET r == createUserBegin(users, currentSession, now, nextId, userData)
  IN /\ r.suspended => (Len(pending) < MaxPending /\ nextId <= MaxUsers)
     /\ pending' = IF r.suspended THEN Append(pending, r.task) ELSE pending
     /\ last' = IF r.suspended
                THEN Call("createUser.await", "", "", NoResult, 0, 0)
                ELSE Call("createUser", "", "", r.result, 0, 0)
     /\ UNCHANGED <<users, nextId, sessions, attempts, currentSession, nextSid, now, run, passed>>

CreateUserResume(k) ==
  /\ pending[k].op = "createUser"
  /\ LET r == createUserResume(pending[k])
     IN /\ users' = r.users
        /\ nextId' = r.nextId
        /\ last' = Call("createUser", "", "", r.result, 0, 0)
  /\ pending' = RemoveAt(pending, k)
  /\ UNCHANGED <<sessions, attempts, currentSession, nextSid, now, run, passed>>

UpdateUserCall(userData) ==
  LET r == updateUser(users, currentSession, now, userData)
  IN /\ users' = r.users
     /\ last' = Call("updateUser", "", "",
                     IF r.success THEN Success
                     ELSE IF r.error = "User not found" THEN Failure("UserNotFound")
                     ELSE Failure("UpdateDenied"), 0, 0)
     /\ UNCHANGED <<nextId, sessions, attempts, currentSession, nextSid, now, run, pending, passed>>

ChangePasswordCall(userId, oldPassword, newPassword) ==
  LET r == changePasswordBegin(users, currentSession, now, userId, oldPassword, newPassword)
  IN /\ r.suspended => Len(pending) < MaxPending
     /\ pending' = IF r.suspended THEN Append(pending, r.task) ELSE pending
     /\ last' = IF r.suspended
                THEN Call("changePassword.await", "", "", NoResult, 0, 0)
                ELSE Call("changePassword", "", "", r.result, 0, 0)
     /\ UNCHANGED <<users, nextId, sessions, attempts, currentSession, nextSid, now, run, passed>>

ChangePasswordResume(k) ==
  /\ pending[k].op = "changePassword"
  /\ LET r == changePasswordResume(users, currentSession, now, pending[k])
     IN /\ users' = r.users
        /\ last' = Call("changePassword", "", "", r.result, 0, 0)
  /\ pending' = RemoveAt(pending, k)
  /\ UNCHANGED <<nextId, sessions, attempts, currentSession, nextSid, now, run, passed>>

(* createUser and updateUser with their callers *)
NextUsers ==
  \/ \E c \in UserLogins : Login(c[1], c[2])
  \/ Logout
  \/ \E d \in CreateInputs : CreateUserCall(d)
  \/ \E k \in 1..Len(pending) : CreateUserResume(k)
  \/ \E d \in UpdateInputs : UpdateUserCall(d)

SpecUsers == Init /\ [][NextUsers]_vars

(* updateUser on roles, assignments and the active flag, with its callers *)
ProfileInputs ==
  { [id |-> 2, role |-> "admin"],
    [id |-> 2, isActive |-> FALSE],
    [id |-> 2, assignedClients |-> Some(<<"clientA", "clientB">>)],
    [id |-> 3, role |-> "technician"],
    [id |-> 9, role |-> "admin"] }

NextProfile ==
  \/ \E c \in UserLogins : Login(c[1], c[2])
  \/ Logout
  \/ \E d \in ProfileInputs : UpdateUserCall(d)

SpecProfile == Init /\ [][NextProfile]_vars

(* the callers of changePassword sign in with credentials that are right *)
(* at the time                                                            *)
PasswordLogins ==
  { <<"admin", DefaultPassword>>, <<"tech1", TechPassword>>, <<"tech1", "NewPass1!">> }

SignIn(username, password) ==
  /\ login(users, sessions, attempts, currentSession, nextSid, now,
           username, password).result.success
  /\ Login(username, password)

(* changePassword with its callers *)
NextPassword ==
  \/ \E c \in PasswordLogins : SignIn(c[1], c[2])
  \/ Logout
  \/ \E c \in ChangeInputs : ChangePasswordCall(c[1], c[2], c[3])
  \/ \E k \in 1..Len(pending) : ChangePasswordResume(k)

SpecPassword == Init /\ [][NextPassword]_vars

(* ------------------------------- startup ------------------------------ *)
(* session records left in the session store by an earlier run: one that  *)
(* has expired and one that has not                                        *)
StaleSessions ==
  << createSession(InitialUsers[1], 0, 0 - SessionMs),
     createSession(InitialUsers[1], 0, 1 - SessionMs) >>

(* before the service is constructed: the stores as an earlier run left    *)
(* them, or empty on the first run                                         *)
InitBoot ==
  /\ users \in {<<>>, InitialUsers}
  /\ nextId = Len(users) + 1
  /\ sessions \in {<<>>, StaleSessions}
  /\ attempts = << >>
  /\ currentSession = Absent
  /\ nextSid = 1
  /\ now = 0
  /\ last = NoCall
  /\ run = NoRun
  /\ pending = <<[op |-> "constructor"]>>
  /\ passed = << >>

Constructed == \A k \in 1..Len(pending) : pending[k].op # "constructor"

(* the constructor: initializeDefaultUser runs to its await, then          *)
(* cleanupExpiredSessions                                                  *)
Construct ==
  /\ ~Constructed
  /\ pending' = initializeDefaultUserBegin(users)
  /\ sessions' = cleanupExpiredSessions(sessions, now)
  /\ last' = Call("constructor", "", "", NoResult, 0, 0)
  /\ UNCHANGED <<users, nextId, attempts, currentSession, nextSid, now, run, passed>>

InitializeDefaultUserResume(k) ==
  /\ pending[k].op = "initializeDefaultUser"
  /\ users' = initializeDefaultUserResume(users, nextId).users
  /\ nextId' = initializeDefaultUserResume(users, nextId).nextId
  /\ pending' = RemoveAt(pending, k)
  /\ last' = Call("initializeDefaultUser", "", "", NoResult, 0, 0)
  /\ UNCHANGED <<sessions, attempts, currentSession, nextSid, now, run, passed>>

AutoLoginCall ==
  LET o == autoLoginAsAdmin(users, sessions, attempts, currentSession, nextSid, now)
  IN /\ Constructed
     /\ (o.currentSession # currentSession) => nextSid <= MaxSessions
     /\ users' = o.users
     /\ sessions' = o.sessions
     /\ attempts' = o.attempts
     /\ currentSession' = o.currentSession
     /\ nextSid' = IF o.currentSession # currentSession THEN nextSid + 1 ELSE nextSid
     /\ last' = Call("autoLoginAsAdmin", "", "", o.result, 0, 0)
     /\ UNCHANGED <<nextId, now, run, pending, passed>>

BootCreateInputs == { UserData("clerk", "NewPass1!", "technician", Absent) }

NextBoot ==
  \/ Construct
  \/ \E k \in 1..Len(pending) : InitializeDefaultUserResume(k)
  \/ AutoLoginCall
  \/ Constructed /\ Logout
  \/ \E d \in BootCreateInputs : Constructed /\ CreateUserCall(d)
  \/ \E k \in 1..Len(pending) : CreateUserResume(k)
  \/ Constructed /\ Tick

SpecBoot == InitBoot /\ [][NextBoot]_vars

(* ------------------------ overlapping login calls --------------------- *)
RaceLogins == { <<"tech1", "wrong">>, <<"tech1", TechPassword>> }

RaceChanges == { <<2, TechPassword, "NewPass1!">> }

(* the instants SpecRace looks at: the start of a window and the first     *)
(* instant after it                                                        *)
RaceTimes == {0, WindowMs + 1}

(* the count of the calls that passed the limiter for a username, in the  *)
(* window that the first of them opened                                   *)
NotePassed(p, username, t) ==
  IF username \in DOMAIN p /\ t <= p[username].start + WindowMs
  THEN [p EXCEPT ![username].count = @ + 1]
  ELSE [n \in DOMAIN p \cup {username} |->
          IF n = username THEN [start |-> t, count |-> 1] ELSE p[n]]

LoginBegin(username, password) ==
  LET r == loginBegin(users, attempts, now, username, password)
  IN /\ r.suspended => Len(pending) < MaxPending
     /\ attempts' = r.attempts
     /\ pending' = IF r.suspended THEN Append(pending, r.task) ELSE pending
     /\ passed' = IF r.passed THEN NotePassed(passed, username, now) ELSE passed
     /\ last' = IF r.suspended
                THEN Call("login.await", username, password, NoResult, 0, 0)
                ELSE Call("login", username, password, r.result, 0, 0)
     /\ UNCHANGED <<users, nextId, sessions, currentSession, nextSid, now, run>>

LoginResume(k) ==
  /\ pending[k].op = "login"
  /\ LET o == loginResume(users, sessions, attempts, currentSession, nextSid, now,
                          pending[k])
     IN /\ o.result.success => nextSid <= MaxSessions
        /\ users' = o.users
        /\ sessions' = o.sessions
        /\ attempts' = o.attempts
        /\ currentSession' = o.currentSession
        /\ nextSid' = IF o.result.success THEN nextSid + 1 ELSE nextSid
        /\ passed' = IF o.result.success
                      THEN [n \in DOMAIN passed \ {pending[k].username} |-> passed[n]]
                      ELSE passed
        /\ last' = Call("login", pending[k].username, pending[k].password,
                        o.result, 0, 0)
  /\ pending' = RemoveAt(pending, k)
  /\ UNCHANGED <<nextId, now, run>>

(* login() calls for one user that overlap each other, over two windows *)
NextRace ==
  \/ \E c \in RaceLogins : LoginBegin(c[1], c[2])
  \/ \E k \in 1..Len(pending) : LoginResume(k)
  \/ \E t \in RaceTimes : Advance(t)

SpecRace == Init /\ [][NextRace]_vars

(* login() calls for one user that overlap each other and changePassword *)
NextOverlap ==
  \/ \E c \in RaceLogins : LoginBegin(c[1], c[2])
  \/ \E k \in 1..Len(pending) : LoginResume(k)
  \/ \E c \in RaceChanges : ChangePasswordCall(c[1], c[2], c[3])
  \/ \E k \in 1..Len(pending) : ChangePasswordResume(k)

SpecOverlap == Init /\ [][NextOverlap]_vars

(* =============================== claims =============================== *)

(* the limiter holds a full, unexpired window for the identifier *)
Throttled(att, identifier, t) ==
  /\ identifier \in DOMAIN att
  /\ t <= att[identifier].resetTime
  /\ att[identifier].count >= MaxAttempts

(* the step is a login() call for the username of the run, with a password, *)
(* made after at least five consecutive InvalidCredentials results for an   *)
(* active user and less than 30 minutes after the latest of them            *)
SixthAttempt ==
  /\ run.streak >= LockThreshold
  /\ FindActive(users, run.name) # 0
  /\ last'.op = "login"
  /\ last'.username = run.name
  /\ last'.password # ""
  /\ now < run.at + LockMs

(* C1 as stated: after five consecutive failed logins of an existing,      *)
(* active user the sixth login() for that username returns AccountLocked   *)
(* and no other failure variant.                                           *)
C1_SixthIsAccountLocked ==
  [][SixthAttempt => last'.result.kind = "AccountLocked"]_vars

(* C1 amended: the sixth login() is rejected whatever the password: with   *)
(* RateLimited while the limiter still holds a full window for the         *)
(* username, and with AccountLocked otherwise.                             *)
C1_SixthIsRejected ==
  [][SixthAttempt =>
       /\ ~last'.result.success
       /\ last'.result.kind =
            IF Throttled(attempts, ClientId(run.name), now)
            THEN "RateLimited" ELSE "AccountLocked"]_vars

(* a sixth attempt with the right password was answered AccountLocked *)
C1_Witness ==
  /\ last.op = "login"
  /\ last.streak = LockThreshold
  /\ last.password = TechPassword
  /\ last.result.kind = "AccountLocked"

(* a step that is a login() call for an active user, with a password *)
LoginOf(i) ==
  /\ last'.op = "login"
  /\ last'.password # ""
  /\ i = FindActive(users, last'.username)
  /\ i # 0

(* (a) a login() that brings failedLoginAttempts to 5 or more sets lockedUntil *)
(*     to now + 30 minutes                                                     *)
C2_LockSet ==
  \A i \in 1..Len(users) :
    (/\ last'.op = "login"
     /\ users'[i].failedLoginAttempts # users[i].failedLoginAttempts
     /\ users'[i].failedLoginAttempts >= LockThreshold)
    => users'[i].lockedUntil = Some(now + LockMs)

(* (b) while now < lockedUntil every login() is rejected, whatever the         *)
(*     password, and the user store is left as it was                          *)
C2_LockHolds ==
  \A i \in 1..Len(users) :
    (LoginOf(i) /\ IsSome(users[i].lockedUntil) /\ now < Get(users[i].lockedUntil))
    => (~last'.result.success /\ users' = users)

(* a login() with the right password once lockedUntil has passed *)
AfterLock(i) ==
  /\ LoginOf(i)
  /\ IsSome(users[i].lockedUntil)
  /\ now >= Get(users[i].lockedUntil)
  /\ verifyPassword(last'.password, users[i].passwordHash)

(* C2 as stated: (a), (b), and the first login() with the right password   *)
(* made after lockedUntil has passed succeeds.                             *)
C2_LockThenSuccess ==
  [][/\ C2_LockSet
     /\ C2_LockHolds
     /\ \A i \in 1..Len(users) : AfterLock(i) => last'.result.success]_vars

(* C2 amended: (a), (b), and a login() with the right password made after  *)
(* lockedUntil has passed succeeds unless the rate limiter throttles it,   *)
(* in which case it returns RateLimited.                                   *)
C2_LockThenSuccessUnlessThrottled ==
  [][/\ C2_LockSet
     /\ C2_LockHolds
     /\ \A i \in 1..Len(users) :
          AfterLock(i) =>
            IF Throttled(attempts, ClientId(last'.username), now)
            THEN last'.result.kind = "RateLimited"
            ELSE last'.result.success]_vars

(* a login() succeeded right after five consecutive InvalidCredentials *)
(* results: the lock those set has passed                              *)
C2_Witness ==
  /\ last.op = "login"
  /\ last.streak >= LockThreshold
  /\ last.result.success

(* C3: after a login() that returns success the stored record of the user  *)
(* has failedLoginAttempts = 0, no lockedUntil and lastLogin = the time of *)
(* the login, whether or not a session was current at the call.            *)
C3_SuccessIsPersisted ==
  (last.op = "login" /\ last.result.success) =>
    LET i == FindActive(users, last.username)
    IN /\ i # 0
       /\ users[i].failedLoginAttempts = 0
       /\ users[i].lockedUntil = Absent
       /\ users[i].lastLogin = Some(now)

(* a step that is a login() call with a username and a password *)
LoginAttempt == last'.op = "login" /\ last'.username # "" /\ last'.password # ""

(* C4 as stated: once five failed attempts for a username have been made   *)
(* within a window (here: at this very instant), a further attempt for     *)
(* that username is rejected with the rate-limit result.                   *)
C4_FiveFailuresThrottle ==
  [][(LoginAttempt /\ last'.username = run.name /\ run.burst >= MaxAttempts)
       => last'.result.kind = "RateLimited"]_vars

(* C4 amended: a login() attempt is rejected with the rate-limit result,   *)
(* the limiter's record left as it is, exactly while that record holds     *)
(* five attempts in a window that has not elapsed (now <= resetTime); any  *)
(* other attempt passes the gate, and one that finds no unexpired record   *)
(* and fails opens the window: count 1, resetTime = now + 15 minutes.      *)
C4_ThrottledWhileWindowFull ==
  [][LoginAttempt =>
       LET id == ClientId(last'.username)
       IN IF Throttled(attempts, id, now)
          THEN /\ last'.result.kind = "RateLimited"
               /\ last'.result.minutes = Minutes(attempts[id].resetTime - now)
               /\ attempts' = attempts
          ELSE /\ last'.result.kind # "RateLimited"
               /\ (~last'.result.success /\ WindowElapsed(attempts, id, now))
                    => attempts'[id] = [count |-> 1, resetTime |-> now + WindowMs]
               /\ (~last'.result.success /\ ~WindowElapsed(attempts, id, now))
                    => attempts'[id] = [count |-> attempts[id].count + 1,
                                        resetTime |-> attempts[id].resetTime]
               /\ last'.result.success => id \notin DOMAIN attempts']_vars

(* an attempt was throttled after five failed attempts made at one instant *)
C4_Witness ==
  /\ last.op = "login"
  /\ last.burst >= MaxAttempts
  /\ last.result.kind = "RateLimited"

(* C5: isAllowed with maxAttempts = 5 and a 15 minute window. A call that  *)
(* finds no record, or one whose reset time has passed, returns true and   *)
(* starts a window with count = 1 and reset = now + window; inside a       *)
(* window the calls return true and increment the count while it is below  *)
(* 5, and return false, count and reset time unchanged, from then on: no   *)
(* record ever counts more than 5.                                         *)
C5_Step ==
  last'.op = "isAllowed" =>
    LET id == ClientId(last'.username)
        others == \A j \in DOMAIN attempts \ {id} :
                    j \in DOMAIN attempts' /\ attempts'[j] = attempts[j]
    IN /\ others
       /\ id \in DOMAIN attempts'
       /\ IF id \notin DOMAIN attempts \/ now > attempts[id].resetTime
          THEN /\ last'.result.success
               /\ attempts'[id] = [count |-> 1, resetTime |-> now + WindowMs]
          ELSE IF attempts[id].count < 5
          THEN /\ last'.result.success
               /\ attempts'[id] = [count |-> attempts[id].count + 1,
                                   resetTime |-> attempts[id].resetTime]
          ELSE /\ ~last'.result.success
               /\ attempts'[id] = attempts[id]
       /\ attempts'[id].count <= 5

C5_Windowing == [][C5_Step]_vars

(* a sixth call inside the window was refused *)
C5_Witness ==
  /\ last.op = "isAllowed"
  /\ ~last.result.success
  /\ attempts[ClientId(last.username)].count = 5
  /\ now <= attempts[ClientId(last.username)].resetTime

(* the user store as it would be if no user had the username *)
Without(us, username) == SelectSeq(us, LAMBDA u : u.username # username)

(* what login() returns for the latest call's credentials against store us *)
ResultAgainst(us) ==
  login(us, sessions, attempts, currentSession, nextSid, now,
        last'.username, last'.password).result

(* C6: a login() the rate limiter throttles returns the rate-limited       *)
(* result and writes nothing: user store, nextId, session store and        *)
(* current session stay as they were, and the result is the one the same   *)
(* call returns when no user has that username.                            *)
C6_ThrottledTouchesNothing ==
  [][(last'.op = "login" /\ last'.result.kind = "RateLimited") =>
       /\ ~last'.result.success
       /\ users' = users
       /\ nextId' = nextId
       /\ sessions' = sessions
       /\ currentSession' = currentSession
       /\ last'.result = ResultAgainst(Without(users, last'.username))]_vars

(* a throttled login() of an existing user while a session was current *)
C6_Witness ==
  /\ last.op = "login"
  /\ last.result.kind = "RateLimited"
  /\ FindActive(users, last.username) # 0
  /\ IsSome(currentSession)
  /\ Len(sessions) > 0

(* C7: a login() with a wrong password for an existing, active, unlocked   *)
(* user returns what the same call returns when no active user has that    *)
(* username: past the rate limiter both are success = false with the one   *)
(* generic error 'Invalid username or password' (and a throttled call      *)
(* returns the rate-limit result in both cases).                           *)
C7_WrongPasswordLooksLikeNoUser ==
  [][\A i \in 1..Len(users) :
       (/\ LoginOf(i)
        /\ ~IsLocked(users[i], now)
        /\ ~verifyPassword(last'.password, users[i].passwordHash))
       => /\ ~last'.result.success
          /\ last'.result = ResultAgainst(Without(users, last'.username))
          /\ ~Throttled(attempts, ClientId(last'.username), now)
               => /\ last'.result.kind = "InvalidCredentials"
                  /\ ErrorText(last'.result.kind) = "Invalid username or password"
                  /\ last'.result.minutes = 0]_vars

(* a wrong password for an existing user was answered with the generic error *)
C7_Witness ==
  /\ last.op = "login"
  /\ last.password = "wrong"
  /\ FindActive(users, last.username) # 0
  /\ last.result.kind = "InvalidCredentials"
  /\ last.result = NotFoundResult

(* the user getCurrentUser returns now, if any *)
CurrentUser == getCurrentUser(users, currentSession, now)

(* C8: a session created by login() at T is valid just before T + 8 h and  *)
(* invalid after it, and invalid whenever now - lastActivity >= 2 h;       *)
(* getCurrentUser returns a user only if the current session exists,       *)
(* now < expiresAt = createdAt + 8 h and now - lastActivity < 2 h.         *)
C8_SessionExpiry ==
  /\ IsSome(currentSession) =>
       LET session == Get(currentSession)
       IN /\ session.expiresAt = session.createdAt + SessionMs
          /\ now = session.createdAt + SessionMs - 1 => IsSome(CurrentUser)
          /\ now >= session.createdAt + SessionMs + 1 => ~IsSome(CurrentUser)
          /\ now - session.lastActivity >= InactivityMs => ~IsSome(CurrentUser)
  /\ IsSome(CurrentUser) =>
       /\ IsSome(currentSession)
       /\ now < Get(currentSession).expiresAt
       /\ now - Get(currentSession).lastActivity < InactivityMs

(* the pairs (role held, role required) that pass the check *)
Satisfies ==
  { <<"admin", "admin">>, <<"admin", "technician">>, <<"admin", "readonly">>,
    <<"technician", "technician">>, <<"technician", "readonly">>,
    <<"readonly", "readonly">> }

(* C9: hasPermission(r) is true iff there is a current user and its role   *)
(* ranks at least r in admin >= technician >= readonly: an admin passes    *)
(* the three checks, a readonly user fails the technician and the admin    *)
(* check, and without a valid current session every check fails.           *)
C9_RoleHierarchy ==
  /\ \A r \in Roles :
       hasPermission(users, currentSession, now, r)
         <=> (IsSome(CurrentUser) /\ <<Get(CurrentUser).role, r>> \in Satisfies)
  /\ \A r1, r2 \in Roles :
       (hasPermission(users, currentSession, now, r1) /\ <<r1, r2>> \in Satisfies)
         => hasPermission(users, currentSession, now, r2)

(* a readonly user is current and fails the technician and the admin check *)
C9_Witness ==
  /\ IsSome(CurrentUser)
  /\ Get(CurrentUser).role = "readonly"
  /\ hasPermission(users, currentSession, now, "readonly")
  /\ ~hasPermission(users, currentSession, now, "technician")
  /\ ~hasPermission(users, currentSession, now, "admin")

(* the stored record of the user of the current session *)
SessionUser == users[IndexOfId(users, Get(currentSession).userId)]

(* C10: canAccessClient(c) is true for an admin for every c, for another   *)
(* role iff c is in the user's assignedClients (false when the list is     *)
(* absent), and false without a valid current session.                     *)
C10_ClientAccess ==
  \A c \in ClientIds :
    canAccessClient(users, currentSession, now, c)
      <=> /\ IsSome(CurrentUser)
          /\ \/ SessionUser.role = "admin"
             \/ /\ SessionUser.assignedClients # Absent
                /\ \E k \in DOMAIN Get(SessionUser.assignedClients) :
                     Get(SessionUser.assignedClients)[k] = c

(* the technician assigned clientA is current: clientA yes, clientB no *)
C10_Witness ==
  /\ IsSome(CurrentUser)
  /\ Get(CurrentUser).role = "technician"
  /\ canAccessClient(users, currentSession, now, "clientA")
  /\ ~canAccessClient(users, currentSession, now, "clientB")

(* the current user now is an admin *)
AdminIsCurrent == IsSome(CurrentUser) /\ Get(CurrentUser).role = "admin"

(* the store of users is left as it was, and no call is left suspended *)
StoreUntouched == users' = users /\ nextId' = nextId /\ pending' = pending

C12_ActiveUsernamesUnique ==
  \A i, j \in 1..Len(users) :
    (i # j /\ users[i].isActive /\ users[j].isActive)
    => users[i].username # users[j].username

(* the ids of a user list *)
Ids(us) == {us[i].id : i \in 1..Len(us)}

(* C13: the stored users have distinct ids, nextId is greater than every   *)
(* stored id, and a createUser that returns success returns an id greater  *)
(* than every id assigned before it, with the new user and every user      *)
(* stored before it in the store.                                          *)
C13_IdsUniqueMonotonic ==
  [][/\ Cardinality(Ids(users')) = Len(users')
     /\ \A id \in Ids(users') : id < nextId'
     /\ (last'.op = "createUser" /\ last'.result.success)
          => /\ Get(last'.result.user).id >= nextId
             /\ Get(last'.result.user).id \in Ids(users')
             /\ Ids(users) \subseteq Ids(users')]_vars

(* C14: createUser called without a valid session of an admin returns      *)
(* success = false at once and leaves the user list and nextId as they     *)
(* were; only a call made by an admin gets as far as hashing the password  *)
(* and storing the user.                                                   *)
C14_OnlyAdminCreates ==
  [][\A d \in CreateInputs :
       /\ (CreateUserCall(d) /\ ~AdminIsCurrent)
            => /\ last'.op = "createUser"
               /\ ~last'.result.success
               /\ StoreUntouched
       /\ (CreateUserCall(d) /\ last'.op = "createUser.await")
            => AdminIsCurrent]_vars

(* a technician's createUser was refused *)
C14_Witness ==
  /\ last.op = "createUser"
  /\ last.result.kind = "CreateDenied"
  /\ IsSome(CurrentUser)
  /\ Get(CurrentUser).role = "technician"

(* the list getUsers returns now *)
Listed == getUsers(users, currentSession, now)

(* C15: for an admin getUsers returns the public views of exactly the      *)
(* active users, in the order of the store; without a valid session, or    *)
(* for a technician or readonly user, it returns the empty list; no view   *)
(* has the password hash.                                                  *)
C15_GetUsers ==
  /\ ~AdminIsCurrent => Listed = <<>>
  /\ AdminIsCurrent =>
       /\ Len(Listed) = Cardinality({i \in 1..Len(users) : users[i].isActive})
       /\ \A i \in 1..Len(users) :
            users[i].isActive <=> \E k \in 1..Len(Listed) : Listed[k].id = users[i].id
       /\ \A k \in 1..Len(Listed) :
            Listed[k] = mapStoredUserToUser(users[IndexOfId(users, Listed[k].id)])
       /\ \A k, m \in 1..Len(Listed) :
            k < m => IndexOfId(users, Listed[k].id) < IndexOfId(users, Listed[m].id)
  /\ \A k \in 1..Len(Listed) : "passwordHash" \notin DOMAIN Listed[k]

(* an admin lists the users while one of them is inactive *)
C15_Witness ==
  /\ AdminIsCurrent
  /\ \E i \in 1..Len(users) : ~users[i].isActive
  /\ Len(Listed) > 0
  /\ Len(Listed) < Len(users)

(* C16: changePassword called by a user on their own record with an old    *)
(* password that does not verify against the stored hash fails with the    *)
(* old-password-mismatch error and leaves the user store as it was.        *)
C16_OldPasswordMismatch ==
  [][\A c \in ChangeInputs :
       (/\ ChangePasswordCall(c[1], c[2], c[3])
        /\ IsSome(CurrentUser)
        /\ Get(CurrentUser).id = c[1]
        /\ ~verifyPassword(c[2], users[IndexOfId(users, c[1])].passwordHash))
       => /\ last'.op = "changePassword"
          /\ ~last'.result.success
          /\ last'.result.kind = "OldPasswordMismatch"
          /\ UserErrorText(last'.result.kind) = "Current password is incorrect"
          /\ StoreUntouched]_vars

(* the technician's changePassword on their own record was refused for the *)
(* old password                                                            *)
C16_Witness ==
  /\ last.op = "changePassword"
  /\ last.result.kind = "OldPasswordMismatch"
  /\ IsSome(CurrentUser)
  /\ Get(CurrentUser).role = "technician"

(* the call may go on to change the password: the caller is an admin or    *)
(* the target, the target exists and the new password passes the policy    *)
MayChange(userId, newPassword) ==
  /\ IsSome(CurrentUser)
  /\ (Get(CurrentUser).role = "admin" \/ Get(CurrentUser).id = userId)
  /\ IndexOfId(users, userId) # 0
  /\ validatePassword(newPassword).valid

(* the password the hash was made of *)
Plain(hash) == hash.bcrypt

(* what login() returns for the credentials in the state after the step *)
LoginAfter(username, password) ==
  login(users', sessions', attempts', currentSession', nextSid', now',
        username, password).result

(* a changePassword returns success for the k-th suspended call: the       *)
(* stored hash of the target verifies the new password, a login with the   *)
(* new password succeeds and one with the old password fails               *)
ChangeTookEffect(k) ==
  LET i == IndexOfId(users', pending[k].user.id)
  IN /\ i # 0
     /\ verifyPassword(pending[k].newPassword, users'[i].passwordHash)
     /\ LoginAfter(users'[i].username, pending[k].newPassword).success
     /\ ~LoginAfter(users'[i].username, Plain(pending[k].user.passwordHash)).success

(* C17: changePassword changes a stored hash only when the caller is an    *)
(* admin or the target, the target exists and the new password passes the  *)
(* policy; otherwise it returns success = false and the store is as it     *)
(* was. After a changePassword that returns success the stored hash of the *)
(* target verifies the new password: a login with the new password         *)
(* succeeds and one with the old password fails.                           *)
C17_ChangePassword ==
  [][/\ \A c \in ChangeInputs :
          (ChangePasswordCall(c[1], c[2], c[3]) /\ ~MayChange(c[1], c[3]))
          => /\ last'.op = "changePassword"
             /\ ~last'.result.success
             /\ StoreUntouched
     /\ \A k \in 1..Len(pending) :
          (ChangePasswordResume(k) /\ last'.result.success) => ChangeTookEffect(k)]_vars

(* C18: logout() removes the record of the current session, and no other,  *)
(* from the session store and sets the current session to none, after      *)
(* which getCurrentUser returns no user; with no current session it        *)
(* returns success and changes nothing; a second logout() changes nothing. *)
C18_Logout ==
  [][last'.op = "logout" =>
       /\ last'.result.success
       /\ currentSession' = Absent
       /\ ~IsSome(getCurrentUser(users', currentSession', now'))
       /\ IsSome(currentSession) =>
            /\ \A k \in 1..Len(sessions') :
                 sessions'[k].sessionId # Get(currentSession).sessionId
            /\ sessions' =
                 SelectSeq(sessions, LAMBDA x : x # Get(currentSession))
       /\ ~IsSome(currentSession) => sessions' = sessions
       /\ UNCHANGED <<users, nextId, attempts, nextSid, now, pending>>
       /\ logout(sessions', currentSession').sessions = sessions'
       /\ logout(sessions', currentSession').currentSession = currentSession'
       /\ logout(sessions', currentSession').result.success]_vars

(* a logout removed the current session and left the record of another in *)
(* the store                                                               *)
C18_Witness ==
  /\ last.op = "logout"
  /\ currentSession = Absent
  /\ Len(sessions) = 1
  /\ nextSid > 2

(* the step is the first autoLoginAsAdmin() call of a service that started *)
(* with an empty user store: no session has been created, no login for     *)
(* admin has been counted, and the store is empty or holds the default     *)
(* admin alone                                                             *)
FirstAutoLogin ==
  /\ AutoLoginCall
  /\ nextSid = 1
  /\ ClientId("admin") \notin DOMAIN attempts
  /\ (users = <<>> \/ users = <<defaultAdmin>>)

(* C19: starting from an empty user store, the first autoLoginAsAdmin()    *)
(* call after construction succeeds as admin with the default password and *)
(* returns a session whose role is admin, whenever it is made relative to  *)
(* the creation of the default admin user.                                 *)
C19_FirstAutoLoginSucceeds ==
  [][FirstAutoLogin =>
       /\ last'.result.success
       /\ IsSome(last'.result.user)
       /\ Get(last'.result.user).username = "admin"
       /\ IsSome(currentSession')
       /\ Get(currentSession').role = "admin"
       /\ last'.result.token = Some(Get(currentSession').sessionId)]_vars

(* initializeDefaultUser is suspended at its await *)
BootPending(list) == \E k \in 1..Len(list) : list[k].op = "initializeDefaultUser"

(* C20: the constructor leaves the user list and nextId as they are, and   *)
(* starts the creation of the default admin exactly when the list is       *)
(* empty; that creation stores exactly one user (id 1, username admin,     *)
(* role admin, active, failedLoginAttempts 0, the hash of the default      *)
(* password) and sets nextId to 2.                                         *)
C20_Bootstrap ==
  [][/\ last'.op = "constructor" =>
          /\ users' = users
          /\ nextId' = nextId
          /\ BootPending(pending') <=> Len(users) = 0
     /\ last'.op = "initializeDefaultUser" =>
          /\ users = <<>>
          /\ Len(users') = 1
          /\ users'[1].id = 1
          /\ users'[1].username = "admin"
          /\ users'[1].role = "admin"
          /\ users'[1].isActive
          /\ users'[1].failedLoginAttempts = 0
          /\ users'[1].lockedUntil = Absent
          /\ users'[1].passwordHash = hashPassword(DefaultPassword)
          /\ verifyPassword(DefaultPassword, users'[1].passwordHash)
          /\ nextId' = 2
     /\ (BootPending(pending) /\ last'.op # "initializeDefaultUser") =>
          (users' = <<>> /\ nextId' = 1)]_vars

(* the default admin has been created in a store that was empty *)
C20_Witness ==
  /\ last.op = "initializeDefaultUser"
  /\ Len(users) = 1
  /\ users[1].username = "admin"
  /\ nextId = 2

(* C21: autoLoginAsAdmin() called while getCurrentUser returns a user      *)
(* returns success with that user and the current session's token and     *)
(* changes nothing: no session is created, the rate limiter and the user   *)
(* store are as they were; without a valid current session it is login()   *)
(* with the default admin credentials.                                     *)
C21_AutoLoginKeepsSession ==
  [][/\ (AutoLoginCall /\ IsSome(CurrentUser)) =>
          /\ last'.result.success
          /\ last'.result.user = CurrentUser
          /\ last'.result.token = Some(Get(currentSession).sessionId)
          /\ UNCHANGED <<users, nextId, sessions, attempts, currentSession,
                         nextSid, pending>>
     /\ (AutoLoginCall /\ ~IsSome(CurrentUser)) =>
          LET o == login(users, sessions, attempts, currentSession, nextSid, now,
                         "admin", DefaultPassword)
          IN /\ last'.result = o.result
             /\ users' = o.users
             /\ sessions' = o.sessions
             /\ attempts' = o.attempts
             /\ currentSession' = o.currentSession
             /\ ClientId("admin") \in DOMAIN attempts' \/ o.result.success]_vars

(* autoLoginAsAdmin() returned the session that was already current: the *)
(* only session of the run, created before the instant of the call        *)
C21_Witness ==
  /\ last.op = "autoLoginAsAdmin"
  /\ last.result.success
  /\ IsSome(currentSession)
  /\ last.result.token = Some(Get(currentSession).sessionId)
  /\ Get(currentSession).createdAt < now
  /\ nextSid = 2

(* C22: updateUser by a caller who is neither an admin nor the owner of    *)
(* the record returns the permission failure; by a permitted caller for an *)
(* id that is not stored, the not-found failure; both leave the user store *)
(* as it was. On success the target record, and no other, becomes the      *)
(* merge of its old fields with the supplied ones.                         *)
C22_UpdateUser ==
  [][\A d \in ProfileInputs :
       UpdateUserCall(d) =>
         LET allowed == /\ IsSome(CurrentUser)
                        /\ (Get(CurrentUser).role = "admin" \/ Get(CurrentUser).id = d.id)
             i == IndexOfId(users, d.id)
         IN /\ ~allowed => (last'.result.kind = "UpdateDenied" /\ users' = users)
            /\ (allowed /\ i = 0) => (last'.result.kind = "UserNotFound" /\ users' = users)
            /\ (allowed /\ i # 0) =>
                 /\ last'.result.success
                 /\ Len(users') = Len(users)
                 /\ \A j \in 1..Len(users) : j # i => users'[j] = users[j]
                 /\ DOMAIN users'[i] = DOMAIN users[i]
                 /\ \A f \in DOMAIN users[i] :
                      users'[i][f] = IF f \in DOMAIN d THEN d[f] ELSE users[i][f]
            /\ UNCHANGED <<nextId, sessions, attempts, currentSession>>]_vars

(* a technician has updated their own record *)
C22_Witness ==
  /\ last.op = "updateUser"
  /\ last.result.success
  /\ IsSome(currentSession)
  /\ Get(currentSession).role = "technician"
  /\ Get(currentSession).userId = 2
  /\ users[2].assignedClients = Some(<<"clientA", "clientB">>)

(* the current session passes isSessionValid *)
SessionIsValid == IsSome(currentSession) /\ isSessionValid(Get(currentSession), now)

(* the checks made now decide as a user of the given role would *)
ChecksDecideBy(role) ==
  /\ \A r \in Roles :
       hasPermission(users, currentSession, now, r) <=> <<role, r>> \in Satisfies
  /\ \A c \in ClientIds :
       canAccessClient(users, currentSession, now, c)
         <=> \/ role = "admin"
             \/ /\ IsSome(SessionUser.assignedClients)
                /\ Includes(Get(SessionUser.assignedClients), c)
  /\ createUserAllowed(users, currentSession, now) <=> role = "admin"
  /\ (Len(getUsers(users, currentSession, now)) > 0) <=> role = "admin"

(* a session is created with the username and the role its user has then, *)
(* and the record of a session never changes                               *)
SessionCaptures ==
  /\ (IsSome(currentSession') /\ currentSession' # currentSession) =>
       LET i == IndexOfId(users, Get(currentSession').userId)
       IN /\ i # 0
          /\ Get(currentSession').username = users[i].username
          /\ Get(currentSession').role = users[i].role
  /\ \A k \in 1..Len(sessions) : \A m \in 1..Len(sessions') :
       sessions'[m].sessionId = sessions[k].sessionId => sessions'[m] = sessions[k]

(* C23 as stated: a session carries the username and role captured at its  *)
(* creation and the authorization checks made under it decide by that      *)
(* captured role, whatever the user store says since.                      *)
C23_ChecksUseCapturedRole ==
  [][/\ SessionCaptures
     /\ SessionIsValid' =>
          ChecksDecideBy(Get(currentSession).role)']_vars

(* C23 amended: a session carries the username and role captured at its    *)
(* creation, but the authorization checks made under it decide by the role *)
(* the user store holds for the session's user at the time of the check.   *)
C23_ChecksUseStoredRole ==
  [][/\ SessionCaptures
     /\ SessionIsValid' =>
          ChecksDecideBy(SessionUser.role)']_vars

(* the technician's session is current, the stored role has become admin, *)
(* and the admin check passes                                              *)
C23_Witness ==
  /\ SessionIsValid
  /\ Get(currentSession).role = "technician"
  /\ SessionUser.role = "admin"
  /\ hasPermission(users, currentSession, now, "admin")
  /\ createUserAllowed(users, currentSession, now)

(* C26: the role of a stored user, and the clients assigned to a user,     *)
(* change only in a step taken under the session of an admin; nothing done *)
(* under the session of a technician or readonly user makes                *)
(* hasPermission('admin') true for them.                                   *)
C26_NoPrivilegeEscalation ==
  [][/\ \A i \in 1..Len(users) :
          (users'[i].role # users[i].role
             \/ users'[i].assignedClients # users[i].assignedClients)
          => AdminIsCurrent
     /\ (IsSome(CurrentUser) /\ Get(CurrentUser).role # "admin"
          /\ currentSession' = currentSession)
          => ~hasPermission(users', currentSession', now', "admin")]_vars

(* the user is not active and is the user of the current session *)
InactiveHoldsSession ==
  /\ SessionIsValid
  /\ IndexOfId(users, Get(currentSession).userId) # 0
  /\ ~SessionUser.isActive

(* C28: login() for a user whose active flag is false fails with the       *)
(* generic invalid-credentials result, and while the user of the current   *)
(* session is not active getCurrentUser returns no user and hasPermission  *)
(* and canAccessClient return false.                                       *)
C28_InactiveNeverAuthenticated ==
  [][/\ \A i \in 1..Len(users) :
          (/\ last'.op = "login"
           /\ last'.username = users[i].username
           /\ last'.password # ""
           /\ ~users[i].isActive
           /\ FindActive(users, users[i].username) = 0)
          => /\ ~last'.result.success
             /\ last'.result.kind = "InvalidCredentials"
     /\ InactiveHoldsSession' =>
          /\ ~IsSome(CurrentUser')
          /\ \A r \in Roles : ~hasPermission(users', currentSession', now', r)
          /\ \A c \in ClientIds : ~canAccessClient(users', currentSession', now', c)]_vars

C29_OnlyCurrentSessionStored ==
  /\ IsSome(currentSession) =>
       \E i \in 1..Len(sessions) : sessions[i].sessionId = Get(currentSession).sessionId
  /\ \A i \in 1..Len(sessions) :
       IsSome(currentSession) /\ sessions[i].sessionId = Get(currentSession).sessionId

(* C30: the stored failedLoginAttempts of every user is between 0 and 5,   *)
(* and lockedUntil is set only when failedLoginAttempts is 5.              *)
C30_CounterWithinThreshold ==
  \A i \in 1..Len(users) :
    /\ users[i].failedLoginAttempts \in 0..LockThreshold
    /\ IsSome(users[i].lockedUntil) => users[i].failedLoginAttempts = LockThreshold

(* C24: of the login() calls for one username, those in flight included,   *)
(* at most maxAttempts (5) get past the isAllowed gate within one window,  *)
(* unless a successful login has reset the record.                         *)
C24_GateIsAtomic ==
  \A n \in DOMAIN passed : passed[n].count <= MaxAttempts

(* five calls have passed in the window, two of them are still suspended   *)
(* at the password verification, and a further call was turned away        *)
C24_Witness ==
  /\ "tech1" \in DOMAIN passed
  /\ passed["tech1"].count = MaxAttempts
  /\ Len(pending) >= 2
  /\ \A k \in 1..Len(pending) : pending[k].op = "login"
  /\ last.op = "login"
  /\ last.result.kind = "RateLimited"

(* C27: a login() that resumes with a failed verification raises the       *)
(* stored failedLoginAttempts by one, whatever overlapped it, and leaves   *)
(* the stored password hash as it is; a changePassword that resumes leaves *)
(* the stored failedLoginAttempts as it is.                                *)
C27_NoLostUpdates ==
  [][\A k \in 1..Len(pending) :
       LET i == IndexOfId(users, pending[k].user.id)
       IN /\ (LoginResume(k) /\ last'.result.kind = "InvalidCredentials")
             => /\ users'[i].failedLoginAttempts = users[i].failedLoginAttempts + 1
                /\ users'[i].passwordHash = users[i].passwordHash
          /\ ChangePasswordResume(k)
             => users'[i].failedLoginAttempts = users[i].failedLoginAttempts]_vars
====
